---------------------------- MODULE Spec2Model ----------------------------
(***************************************************************************)
(* A model of webapp/app.py: the Flask front end that takes three viewing  *)
(* angles, asks the NeRF rendering backend for a PNG, stages the bytes in  *)
(* the in-memory _IMAGE_CACHE and serves them under /image/<rid>.          *)
(*                                                                         *)
(* Text (form fields, header values, the environment value) is a sequence  *)
(* of one-character strings.  A float is a record: kind "nan", "inf" (with *)
(* a sign) or "fin" (sign * num * 10^(-scale), num not divisible by 10     *)
(* unless it is 0).  Identifiers stand for the strings str(uuid.uuid4())   *)
(* produces; 0 is a string uuid4 never produces.                           *)
(***************************************************************************)
EXTENDS Integers, Sequences, FiniteSets, TLC

\* Python's None / a value that is present: an optional value is a set with at
\* most one element.
None == {}
Some(v) == {v}

(***************************************************************************)
(* str.rstrip, str.strip, str.lower, str.split(";")[0]                     *)
(***************************************************************************)
RECURSIVE RStrip(_, _)
RStrip(s, chars) ==
    IF s # <<>> /\ s[Len(s)] \in chars
    THEN RStrip(SubSeq(s, 1, Len(s) - 1), chars)
    ELSE s

RECURSIVE LStrip(_, _)
LStrip(s, chars) ==
    IF s # <<>> /\ s[1] \in chars THEN LStrip(Tail(s), chars) ELSE s

Whitespace == {" ", "\t", "\n"}

Strip(s) == LStrip(RStrip(s, Whitespace), Whitespace)

\* The capital letters that occur in the inputs.
UpperToLower ==
    [c \in {"A", "E", "F", "G", "I", "M", "N", "P", "T", "Y"} |->
        CASE c = "A" -> "a" [] c = "E" -> "e" [] c = "F" -> "f"
          [] c = "G" -> "g" [] c = "I" -> "i" [] c = "M" -> "m"
          [] c = "N" -> "n" [] c = "P" -> "p" [] c = "T" -> "t"
          [] c = "Y" -> "y"]

LowerChar(c) == IF c \in DOMAIN UpperToLower THEN UpperToLower[c] ELSE c

Lower(s) == [i \in 1..Len(s) |-> LowerChar(s[i])]

\* Position of the first occurrence of a character of cs in s, 0 when none.
FirstIndex(s, cs) ==
    IF \E i \in 1..Len(s) : s[i] \in cs
    THEN CHOOSE i \in 1..Len(s) :
            /\ s[i] \in cs
            /\ \A j \in 1..(i - 1) : s[j] \notin cs
    ELSE 0

\* s.split(sep)[0]
SplitFirst(s, sep) ==
    IF FirstIndex(s, {sep}) = 0 THEN s
    ELSE SubSeq(s, 1, FirstIndex(s, {sep}) - 1)

(***************************************************************************)
(* float(text): Python's float literal grammar and its value               *)
(***************************************************************************)
Digits == {"0", "1", "2", "3", "4", "5", "6", "7", "8", "9"}

DigitVal(c) ==
    CASE c = "0" -> 0 [] c = "1" -> 1 [] c = "2" -> 2 [] c = "3" -> 3
      [] c = "4" -> 4 [] c = "5" -> 5 [] c = "6" -> 6 [] c = "7" -> 7
      [] c = "8" -> 8 [] c = "9" -> 9

\* digit (["_"] digit)*
DigitPart(s) ==
    /\ s # <<>>
    /\ \A i \in 1..Len(s) : s[i] \in Digits \cup {"_"}
    /\ s[1] # "_"
    /\ s[Len(s)] # "_"
    /\ \A i \in 1..(Len(s) - 1) : ~(s[i] = "_" /\ s[i + 1] = "_")

RECURSIVE OnlyDigits(_)
OnlyDigits(s) ==
    IF s = <<>> THEN <<>>
    ELSE IF s[1] = "_" THEN OnlyDigits(Tail(s))
    ELSE <<s[1]>> \o OnlyDigits(Tail(s))

RECURSIVE ToNat(_)
ToNat(s) ==
    IF s = <<>> THEN 0
    ELSE 10 * ToNat(SubSeq(s, 1, Len(s) - 1)) + DigitVal(s[Len(s)])

MkFloat(kind, sign, num, scale) ==
    [kind |-> kind, sign |-> sign, num |-> num, scale |-> scale]

HasSign(s) == s # <<>> /\ s[1] \in {"+", "-"}
SignOf(s) == IF s # <<>> /\ s[1] = "-" THEN -1 ELSE 1
Unsigned(s) == IF HasSign(s) THEN Tail(s) ELSE s

\* The pieces of a decimal literal: integer part, fraction, exponent.
Mantissa(u) ==
    IF FirstIndex(u, {"e"}) = 0 THEN u
    ELSE SubSeq(u, 1, FirstIndex(u, {"e"}) - 1)
HasExp(u) == FirstIndex(u, {"e"}) # 0
ExpPart(u) == SubSeq(u, FirstIndex(u, {"e"}) + 1, Len(u))
IntPart(m) ==
    IF FirstIndex(m, {"."}) = 0 THEN m
    ELSE SubSeq(m, 1, FirstIndex(m, {"."}) - 1)
HasPoint(m) == FirstIndex(m, {"."}) # 0
FracPart(m) ==
    IF HasPoint(m) THEN SubSeq(m, FirstIndex(m, {"."}) + 1, Len(m)) ELSE <<>>

IsDecimal(u) ==
    LET m == Mantissa(u)
        ip == IntPart(m)
        fp == FracPart(m)
    IN  /\ ip # <<>> \/ fp # <<>>
        /\ ip = <<>> \/ DigitPart(ip)
        /\ fp = <<>> \/ DigitPart(fp)
        /\ HasExp(u) => DigitPart(Unsigned(ExpPart(u)))

Infinities == {<<"i", "n", "f">>, <<"i", "n", "f", "i", "n", "i", "t", "y">>}
NaNs == {<<"n", "a", "n">>}

\* float(text) raises ValueError exactly when this is FALSE.
IsFloatLiteral(text) ==
    LET u == Unsigned(Lower(Strip(text)))
    IN  u \in Infinities \/ u \in NaNs \/ IsDecimal(u)

\* The largest decimal exponent of a finite double (the largest is about
\* 1.8e308): float() gives inf for a literal above it.  A literal of exponent
\* exactly 308 is decided by its digits; none is among the inputs.
MaxDecimalExponent == 308

RECURSIVE Normalise(_, _, _)
Normalise(sign, num, scale) ==
    IF num = 0 THEN MkFloat("fin", sign, 0, 0)
    ELSE IF num % 10 = 0 THEN Normalise(sign, num \div 10, scale - 1)
    ELSE MkFloat("fin", sign, num, scale)

DecimalValue(sign, u) ==
    LET m == Mantissa(u)
        ds == OnlyDigits(IntPart(m)) \o OnlyDigits(FracPart(m))
        fracLen == Len(OnlyDigits(FracPart(m)))
        ex == IF HasExp(u)
              THEN SignOf(ExpPart(u)) * ToNat(OnlyDigits(Unsigned(ExpPart(u))))
              ELSE 0
        sig == LStrip(ds, {"0"})
    IN  IF sig # <<>> /\ Len(sig) - fracLen + ex - 1 > MaxDecimalExponent
        THEN MkFloat("inf", sign, 0, 0)
        ELSE Normalise(sign, ToNat(ds), fracLen - ex)

\* float(text), for text with IsFloatLiteral(text)
Float(text) ==
    LET t == Lower(Strip(text))
        u == Unsigned(t)
    IN  IF u \in NaNs THEN MkFloat("nan", 1, 0, 0)
        ELSE IF u \in Infinities THEN MkFloat("inf", SignOf(t), 0, 0)
        ELSE DecimalValue(SignOf(t), u)

IsFinite(x) == x.kind = "fin"

(***************************************************************************)
(* str(x) for a float x (fixed notation: 1e-4 <= |x| < 1e16, or 0)         *)
(***************************************************************************)
DigitChar(d) ==
    CASE d = 0 -> "0" [] d = 1 -> "1" [] d = 2 -> "2" [] d = 3 -> "3"
      [] d = 4 -> "4" [] d = 5 -> "5" [] d = 6 -> "6" [] d = 7 -> "7"
      [] d = 8 -> "8" [] d = 9 -> "9"

RECURSIVE NatStr(_)
NatStr(n) ==
    IF n < 10 THEN <<DigitChar(n)>>
    ELSE NatStr(n \div 10) \o <<DigitChar(n % 10)>>

RECURSIVE Zeros(_)
Zeros(n) == IF n <= 0 THEN <<>> ELSE <<"0">> \o Zeros(n - 1)

FloatStr(x) ==
    LET minus == IF x.sign = -1 THEN <<"-">> ELSE <<>>
    IN  CASE x.kind = "nan" -> <<"n", "a", "n">>
          [] x.kind = "inf" -> minus \o <<"i", "n", "f">>
          [] x.kind = "fin" ->
                LET ds == NatStr(x.num)
                IN  IF x.scale <= 0
                    THEN minus \o ds \o Zeros(-x.scale) \o <<".", "0">>
                    ELSE IF x.scale >= Len(ds)
                    THEN minus \o <<"0", ".">> \o Zeros(x.scale - Len(ds)) \o ds
                    ELSE minus \o SubSeq(ds, 1, Len(ds) - x.scale) \o <<".">>
                            \o SubSeq(ds, Len(ds) - x.scale + 1, Len(ds))

(***************************************************************************)
(* The inputs: environment values, forms, identifiers, renderer answers    *)
(***************************************************************************)
\* Values of the environment variable NERF_BACKEND_URL; <<>> is also "unset"
\* (os.environ.get's default is "").
EnvValues == {<<>>, <<"/">>, <<"h">>, <<"h", "/">>}

FieldNames == {"azimuth_deg", "polar_deg", "elevation_deg"}

\* A submitted form: each field is None (not sent) or Some(text).
Form(az, pol, elev) ==
    [azimuth_deg |-> az, polar_deg |-> pol, elevation_deg |-> elev]

T45 == <<"4", "5", ".", "0">>
T60 == <<"6", "0", ".", "0">>
T30 == <<"3", "0", ".", "0">>

DefaultForm == Form(Some(T45), Some(T60), Some(T30))
AbcForm == Form(Some(<<"a", "b", "c">>), Some(T60), Some(T30))

Forms ==
    { DefaultForm,
      Form(Some(<<"7">>), Some(<<" ", "6", "0", ".", "0", "0", " ">>),
           Some(<<"-", ".", "5", "e", "1">>)),
      Form(Some(<<"1", "_", "0">>), Some(<<"+", "0", ".", "0", "2", "5">>),
           Some(<<"-", "0">>)),
      AbcForm,
      Form(Some(T45), Some(<<>>), Some(T30)),
      Form(Some(T45), Some(T60), Some(<<"1", "2", "x">>)),
      Form(None, Some(T60), Some(<<"3", "0">>)),
      Form(None, None, None),
      Form(Some(<<"n", "a", "n">>), Some(T60), Some(T30)),
      Form(Some(T45), Some(<<"i", "n", "f">>), Some(T30)),
      Form(Some(T45), Some(T60),
           Some(<<"-", "I", "n", "f", "i", "n", "i", "t", "y">>)),
      Form(Some(<<"1", "e", "9", "9", "9">>), Some(T60), Some(T30)),
      Form(Some(<<"N", "a", "N">>), Some(<<"x">>), Some(T30)) }

\* The forms of the runs with two workers.
CoreForms == {DefaultForm, AbcForm}

\* The number of requests a behaviour starts.
MaxRequests == 3

\* Identifiers: k > 0 stands for the k-th distinct string uuid4 can return,
\* 0 for a string that is no uuid4 result.
Ids == 0..MaxRequests

\* The threads of the server that handle requests at the same time.
Workers == {"w1", "w2"}

PNG0 == <<>>
PNG1 == <<137, 80>>

ImagePng == <<"i", "m", "a", "g", "e", "/", "p", "n", "g">>
TextPlain == <<"t", "e", "x", "t", "/", "p", "l", "a", "i", "n">>
ImagePngParams ==
    <<" ", "I", "M", "A", "G", "E", "/", "P", "N", "G", " ", ";", "q", "=", "1">>

\* requests.post returning the renderer's answer.
HttpResponse(status, ctype, content) ==
    [kind |-> "response", status |-> status, content_type |-> ctype,
     content |-> content]

\* requests.post ending in an exception of class kind.
Raised(kind) ==
    [kind |-> kind, status |-> 0, content_type |-> None, content |-> <<>>]

Outcomes ==
    { Raised("ConnectionError"),
      Raised("Timeout"),
      Raised("InvalidJSONError"),
      HttpResponse(200, Some(ImagePng), PNG0),
      HttpResponse(200, Some(ImagePng), PNG1),
      HttpResponse(200, Some(ImagePngParams), PNG1),
      HttpResponse(200, Some(ImagePng \o <<"x">>), PNG1),
      HttpResponse(200, Some(TextPlain), PNG1),
      HttpResponse(200, None, PNG1),
      HttpResponse(300, Some(ImagePng), PNG1),
      HttpResponse(404, Some(ImagePng), PNG1),
      HttpResponse(503, Some(TextPlain), PNG0) }

\* The outcomes of the runs with two workers.
CoreOutcomes ==
    { Raised("Timeout"),
      HttpResponse(200, Some(ImagePng), PNG0),
      HttpResponse(200, Some(ImagePngParams), PNG1),
      HttpResponse(200, Some(TextPlain), PNG1) }

(***************************************************************************)
(* The state                                                               *)
(***************************************************************************)
VARIABLES
    NERF_BACKEND_URL,   \* the module-level setting, fixed at import
    IMAGE_CACHE,        \* _IMAGE_CACHE: identifier -> bytes
    pc,                 \* where each worker's request handler stands
    req,                \* the handler's arguments and locals
    resp,               \* the last response each worker sent
    minted,             \* the identifiers uuid4 has returned
    calls,              \* requests.post invocations of the worker's request
    handed,             \* the (identifier, bytes) pairs sent in an image_url
    handouts,           \* the number of pages sent with an image_url
    served,             \* the (identifier, bytes) pairs /image/<rid> has sent
    started             \* the number of requests started

vars == <<NERF_BACKEND_URL, IMAGE_CACHE, pc, req, resp, minted, calls,
          handed, handouts, served, started>>

The(opt) == CHOOSE v \in opt : TRUE

\* request.form.get(name) without the default, rendered by the template
FormGetNoDefault(form, name) ==
    IF form[name] = None THEN <<"N", "o", "n", "e">> ELSE The(form[name])

\* request.form.get(name, "")
FormGet(form, name) == IF form[name] = None THEN <<>> ELSE The(form[name])

\* request.form[name] raises (BadRequestKeyError) when the field was not sent,
\* float() raises ValueError on a text that is no float literal.
FieldRaises(form, name) ==
    form[name] = None \/ ~IsFloatLiteral(The(form[name]))

ParseRaises(form) == \E name \in FieldNames : FieldRaises(form, name)

Parsed(form) ==
    [name \in FieldNames |-> Float(The(form[name]))]

\* not NERF_BACKEND_URL
NotConfigured(url) == url = <<>>

\* an identifier that does not change from one request to the next
uuid4Fixed(earlier) == 1

\* str(uuid.uuid4()): a random 122-bit value, taken to differ from every
\* earlier one.
uuid4(earlier) == Cardinality(earlier) + 1

\* url_for("image", rid=rid) and the rule "/image/<rid>" that reads it back.
url_for_image(rid) == <<"image", rid>>
RouteRid(path) == path[2]
ImagePaths == {url_for_image(rid) : rid \in Ids}

\* render_template("index.html", ...), status
Template(az, pol, elev, image_url, error, status) ==
    [status |-> status, azimuth_deg |-> Some(az), polar_deg |-> Some(pol),
     elevation_deg |-> Some(elev), image_url |-> image_url, error |-> error,
     body |-> None, mimetype |-> "text/html"]

\* Response(data, mimetype="image/png")
ImageResponse(data) ==
    [status |-> 200, azimuth_deg |-> None, polar_deg |-> None,
     elevation_deg |-> None, image_url |-> None, error |-> None,
     body |-> Some(data), mimetype |-> "image/png"]

\* abort(404)
NotFound ==
    [status |-> 404, azimuth_deg |-> None, polar_deg |-> None,
     elevation_deg |-> None, image_url |-> None, error |-> None,
     body |-> None, mimetype |-> "text/html"]

NoResponse ==
    [status |-> 0, azimuth_deg |-> None, polar_deg |-> None,
     elevation_deg |-> None, image_url |-> None, error |-> None,
     body |-> None, mimetype |-> "none"]

EchoRaw(form, error, status) ==
    Template(FormGet(form, "azimuth_deg"), FormGet(form, "polar_deg"),
             FormGet(form, "elevation_deg"), None, Some(error), status)

EchoParsed(vals, image_url, error, status) ==
    Template(FloatStr(vals["azimuth_deg"]), FloatStr(vals["polar_deg"]),
             FloatStr(vals["elevation_deg"]), image_url, error, status)

\* A request: op, the locals of its handler, and two records of the moment it
\* was accepted: the cache then (before) and whether /image/<rid> had already
\* sent this identifier's bytes (refetch).
NoRequest ==
    [op |-> "none", form |-> None, vals |-> None, rid |-> None,
     outcome |-> None, content |-> None, data |-> None,
     before |-> <<>>, refetch |-> FALSE]

\* json.dumps of the payload: requests 2.26 and later serialise with
\* allow_nan=False and raise InvalidJSONError (a RequestException) on a
\* non-finite number without sending anything; earlier versions send NaN or
\* Infinity.  The installed version is not fixed by the repository.
PostOutcomes(vals) ==
    {o \in Outcomes :
        o.kind = "InvalidJSONError" =>
            \E name \in FieldNames : ~IsFinite(vals[name])}

\* requests.post raised, or resp.raise_for_status() did (HTTPError on 4xx, 5xx)
PostRaises(outcome) ==
    \/ outcome.kind # "response"
    \/ outcome.status >= 400 /\ outcome.status < 600

ErrorClass(outcome) ==
    IF outcome.kind # "response" THEN outcome.kind ELSE "HTTPError"

\* resp.headers.get("content-type", "").split(";")[0].strip().lower()
MediaType(outcome) ==
    Lower(Strip(SplitFirst(
        IF outcome.content_type = None THEN <<>> ELSE The(outcome.content_type),
        ";")))

\* the header compared as it came, parameters and case included
NotPngExact(outcome) == outcome.content_type # Some(ImagePng)

NotPng(outcome) == MediaType(outcome) # ImagePng

\* a cache that keeps the last image only
CacheSetLastOnly(cache, rid, content) == [k \in {rid} |-> content]

\* _IMAGE_CACHE[rid] = resp.content
CacheSet(cache, rid, content) ==
    [k \in DOMAIN cache \cup {rid} |-> IF k = rid THEN content ELSE cache[k]]

\* _IMAGE_CACHE.get(rid)
CacheGet(cache, rid) ==
    IF rid \in DOMAIN cache THEN Some(cache[rid]) ELSE None

\* "if not data": empty bytes taken for a missing entry
IsFalsy(data) == data = None \/ data = Some(<<>>)

\* data is None
IsNone(data) == data = None

(***************************************************************************)
(* The handlers                                                            *)
(***************************************************************************)
Init ==
    /\ NERF_BACKEND_URL \in {RStrip(v, {"/"}) : v \in EnvValues}
    /\ IMAGE_CACHE = <<>>
    /\ pc = [w \in Workers |-> "idle"]
    /\ req = [w \in Workers |-> NoRequest]
    /\ resp = [w \in Workers |-> NoResponse]
    /\ minted = {}
    /\ calls = [w \in Workers |-> 0]
    /\ handed = {}
    /\ handouts = 0
    /\ served = {}
    /\ started = 0

\* A worker takes the next request.
Accept(w) ==
    /\ pc[w] \in {"idle", "done"}
    /\ started < MaxRequests
    /\ started' = started + 1
    /\ calls' = [calls EXCEPT ![w] = 0]

Request(op) == [NoRequest EXCEPT !.op = op, !.before = IMAGE_CACHE]

Send(w, response) ==
    /\ resp' = [resp EXCEPT ![w] = response]
    /\ pc' = [pc EXCEPT ![w] = "done"]

\* GET /
Index(w) ==
    /\ Accept(w)
    /\ req' = [req EXCEPT ![w] = Request("index")]
    /\ Send(w, Template(T45, T60, T30, None, None, 200))
    /\ UNCHANGED <<NERF_BACKEND_URL, IMAGE_CACHE, minted, handed, handouts,
                   served>>

\* POST /render with the fields parsed before the setting is looked at
RenderValidateFirst(w, form) ==
    /\ Accept(w)
    /\ IF ParseRaises(form)
       THEN /\ req' = [req EXCEPT ![w] =
                        [Request("render") EXCEPT !.form = Some(form)]]
            /\ Send(w, EchoRaw(form,
                    <<"Invalid input. Please enter numeric degrees.">>, 400))
            /\ UNCHANGED minted
       ELSE IF NotConfigured(NERF_BACKEND_URL)
       THEN /\ req' = [req EXCEPT ![w] =
                        [Request("render") EXCEPT !.form = Some(form)]]
            /\ Send(w, EchoRaw(form,
                    <<"NERF_BACKEND_URL is not set on the server.">>, 500))
            /\ UNCHANGED minted
       ELSE /\ req' = [req EXCEPT ![w] =
                        [Request("render") EXCEPT !.form = Some(form),
                                                  !.vals = Some(Parsed(form)),
                                                  !.rid = Some(uuid4(minted))]]
            /\ minted' = minted \cup {uuid4(minted)}
            /\ pc' = [pc EXCEPT ![w] = "post"]
            /\ UNCHANGED resp
    /\ UNCHANGED <<NERF_BACKEND_URL, IMAGE_CACHE, handed, handouts, served>>

\* POST /render, up to the call of requests.post
Render(w, form) ==
    /\ Accept(w)
    /\ IF NotConfigured(NERF_BACKEND_URL)
       THEN /\ req' = [req EXCEPT ![w] =
                        [Request("render") EXCEPT !.form = Some(form)]]
            /\ Send(w, EchoRaw(form,
                    <<"NERF_BACKEND_URL is not set on the server.">>, 500))
            /\ UNCHANGED minted
       ELSE IF ParseRaises(form)
       THEN /\ req' = [req EXCEPT ![w] =
                        [Request("render") EXCEPT !.form = Some(form)]]
            /\ Send(w, EchoRaw(form,
                    <<"Invalid input. Please enter numeric degrees.">>, 400))
            /\ UNCHANGED minted
       ELSE /\ req' = [req EXCEPT ![w] =
                        [Request("render") EXCEPT !.form = Some(form),
                                                  !.vals = Some(Parsed(form)),
                                                  !.rid = Some(uuid4(minted))]]
            /\ minted' = minted \cup {uuid4(minted)}
            /\ pc' = [pc EXCEPT ![w] = "post"]
            /\ UNCHANGED resp
    /\ UNCHANGED <<NERF_BACKEND_URL, IMAGE_CACHE, handed, handouts, served>>

\* requests.post called again after an exception
RenderPostRetry(w, outcome) ==
    /\ pc[w] = "post"
    /\ outcome \in PostOutcomes(The(req[w].vals))
    /\ calls' = [calls EXCEPT ![w] = @ + 1]
    /\ IF PostRaises(outcome)
       THEN /\ req' = [req EXCEPT ![w].outcome = Some(outcome)]
            /\ UNCHANGED <<pc, resp>>
       ELSE IF NotPng(outcome)
       THEN /\ req' = [req EXCEPT ![w].outcome = Some(outcome)]
            /\ Send(w, EchoParsed(The(req[w].vals), None,
                    Some(<<"Backend did not return image/png.">>), 502))
       ELSE /\ req' = [req EXCEPT ![w].outcome = Some(outcome),
                                  ![w].content = Some(outcome.content)]
            /\ pc' = [pc EXCEPT ![w] = "store"]
            /\ UNCHANGED resp
    /\ UNCHANGED <<NERF_BACKEND_URL, IMAGE_CACHE, minted, handed, handouts,
                   served, started>>

\* requests.post(...), resp.raise_for_status() and the content-type test
RenderPost(w, outcome) ==
    /\ pc[w] = "post"
    /\ outcome \in PostOutcomes(The(req[w].vals))
    /\ calls' = [calls EXCEPT ![w] = @ + 1]
    /\ IF PostRaises(outcome)
       THEN /\ req' = [req EXCEPT ![w].outcome = Some(outcome)]
            /\ Send(w, EchoParsed(The(req[w].vals), None,
                    Some(<<"Backend error: ", ErrorClass(outcome)>>), 502))
       ELSE IF NotPng(outcome)
       THEN /\ req' = [req EXCEPT ![w].outcome = Some(outcome)]
            /\ Send(w, EchoParsed(The(req[w].vals), None,
                    Some(<<"Backend did not return image/png.">>), 502))
       ELSE /\ req' = [req EXCEPT ![w].outcome = Some(outcome),
                                  ![w].content = Some(outcome.content)]
            /\ pc' = [pc EXCEPT ![w] = "store"]
            /\ UNCHANGED resp
    /\ UNCHANGED <<NERF_BACKEND_URL, IMAGE_CACHE, minted, handed, handouts,
                   served, started>>

\* the cache written back from the copy taken when the request came in
RenderStoreStale(w) ==
    /\ pc[w] = "store"
    /\ IMAGE_CACHE' = CacheSet(req[w].before, The(req[w].rid), The(req[w].content))
    /\ pc' = [pc EXCEPT ![w] = "respond"]
    /\ UNCHANGED <<NERF_BACKEND_URL, req, resp, minted, calls, handed,
                   handouts, served, started>>

\* _IMAGE_CACHE[rid] = resp.content
RenderStore(w) ==
    /\ pc[w] = "store"
    /\ IMAGE_CACHE' = CacheSet(IMAGE_CACHE, The(req[w].rid), The(req[w].content))
    /\ pc' = [pc EXCEPT ![w] = "respond"]
    /\ UNCHANGED <<NERF_BACKEND_URL, req, resp, minted, calls, handed,
                   handouts, served, started>>

\* the page that carries image_url
RenderRespond(w) ==
    /\ pc[w] = "respond"
    /\ Send(w, EchoParsed(The(req[w].vals),
                          Some(url_for_image(The(req[w].rid))), None, 200))
    /\ handed' = handed \cup {[rid |-> The(req[w].rid),
                              content |-> The(req[w].content)]}
    /\ handouts' = handouts + 1
    /\ UNCHANGED <<NERF_BACKEND_URL, IMAGE_CACHE, req, minted, calls, served,
                   started>>

\* GET /image/<rid>, up to the read of the cache
Image(w, path) ==
    /\ Accept(w)
    /\ req' = [req EXCEPT ![w] =
                [Request("image") EXCEPT
                    !.rid = Some(RouteRid(path)),
                    !.refetch = \E s \in served : s.rid = RouteRid(path)]]
    /\ pc' = [pc EXCEPT ![w] = "get"]
    /\ UNCHANGED <<NERF_BACKEND_URL, IMAGE_CACHE, resp, minted, handed,
                   handouts, served>>

\* data = _IMAGE_CACHE.get(rid)
ImageGet(w) ==
    /\ pc[w] = "get"
    /\ req' = [req EXCEPT ![w].data = CacheGet(IMAGE_CACHE, The(req[w].rid))]
    /\ pc' = [pc EXCEPT ![w] = "got"]
    /\ UNCHANGED <<NERF_BACKEND_URL, IMAGE_CACHE, resp, minted, calls, handed,
                   handouts, served, started>>

\* the commented-out line run: del _IMAGE_CACHE[rid] after one use
ImageRespondEvict(w) ==
    /\ pc[w] = "got"
    /\ IF IsNone(req[w].data)
       THEN /\ Send(w, NotFound)
            /\ UNCHANGED <<served, IMAGE_CACHE>>
       ELSE /\ Send(w, ImageResponse(The(req[w].data)))
            /\ served' = served \cup {[rid |-> The(req[w].rid),
                                      content |-> The(req[w].data)]}
            /\ IMAGE_CACHE' = [k \in DOMAIN IMAGE_CACHE \ {The(req[w].rid)} |->
                                    IMAGE_CACHE[k]]
    /\ UNCHANGED <<NERF_BACKEND_URL, req, minted, calls, handed, handouts,
                   started>>

\* abort(404) or Response(data, mimetype="image/png"); the entry stays
ImageRespond(w) ==
    /\ pc[w] = "got"
    /\ IF IsNone(req[w].data)
       THEN /\ Send(w, NotFound)
            /\ UNCHANGED served
       ELSE /\ Send(w, ImageResponse(The(req[w].data)))
            /\ served' = served \cup {[rid |-> The(req[w].rid),
                                      content |-> The(req[w].data)]}
    /\ UNCHANGED <<NERF_BACKEND_URL, IMAGE_CACHE, req, minted, calls, handed,
                   handouts, started>>

\* The steps of the workers W on the forms F and the renderer outcomes O.
Step(W, F, O) ==
    \E w \in W :
        \/ Index(w)
        \/ \E form \in F : Render(w, form)
        \/ \E outcome \in O : RenderPost(w, outcome)
        \/ RenderStore(w)
        \/ RenderRespond(w)
        \/ \E path \in ImagePaths : Image(w, path)
        \/ ImageGet(w)
        \/ ImageRespond(w)

\* Requests handled at the same time by two threads.
Next == Step(Workers, CoreForms, CoreOutcomes)

Spec == Init /\ [][Next]_vars

\* Requests handled one after the other, on every form and outcome.
NextSeq == Step({"w1"}, Forms, Outcomes)

SpecSeq == Init /\ [][NextSeq]_vars

(***************************************************************************)
(* The properties                                                          *)
(***************************************************************************)
\* Worker w has sent the response of a request of kind op and holds both.
Done(w, op) == pc[w] = "done" /\ req[w].op = op

HandedIds == {h.rid : h \in handed}

Configured == NERF_BACKEND_URL # <<>>

\* The field was sent and float() accepts its text.
Numeric(form, name) ==
    form[name] # None /\ IsFloatLiteral(The(form[name]))

\* The text of the field as submitted, "" when it was not sent.
RawText(form, name) == IF form[name] = None THEN <<>> ELSE The(form[name])

EchoesRaw(r, form) ==
    /\ r.azimuth_deg = Some(RawText(form, "azimuth_deg"))
    /\ r.polar_deg = Some(RawText(form, "polar_deg"))
    /\ r.elevation_deg = Some(RawText(form, "elevation_deg"))

EchoesParsed(r, form) ==
    /\ r.azimuth_deg = Some(FloatStr(Float(The(form["azimuth_deg"]))))
    /\ r.polar_deg = Some(FloatStr(Float(The(form["polar_deg"]))))
    /\ r.elevation_deg = Some(FloatStr(Float(The(form["elevation_deg"]))))

\* C1: with requests handled one after the other, GET /image/X for an X that a
\* page has handed out answers 200, image/png, with exactly the bytes the
\* renderer returned to that submission (empty bytes included); for any other
\* identifier it answers 404.
C1_FetchReturnsStagedBytes ==
    \A w \in Workers :
        Done(w, "image") =>
            IF The(req[w].rid) \in HandedIds
            THEN \A h \in handed :
                    h.rid = The(req[w].rid) =>
                        /\ resp[w].status = 200
                        /\ resp[w].mimetype = "image/png"
                        /\ resp[w].body = Some(h.content)
            ELSE resp[w].status = 404

C1_Witness ==
    \E w \in Workers :
        /\ Done(w, "image")
        /\ [rid |-> The(req[w].rid), content |-> PNG0] \in handed
        /\ resp[w].status = 200
        /\ resp[w].body = Some(PNG0)

\* C2: with the backend address set, a submission with a field that is missing
\* or is no number is answered 400 with an error message, no image reference
\* and the field texts as they were sent ("" for a missing field).
C2_InvalidFieldGives400 ==
    \A w \in Workers :
        ( /\ Done(w, "render")
          /\ Configured
          /\ \E name \in FieldNames : ~Numeric(The(req[w].form), name) )
        => /\ resp[w].status = 400
           /\ resp[w].error # None
           /\ resp[w].image_url = None
           /\ EchoesRaw(resp[w], The(req[w].form))

C2_Witness ==
    \E w \in Workers :
        /\ Done(w, "render")
        /\ Configured
        /\ The(req[w].form)["azimuth_deg"] = None
        /\ The(req[w].form)["elevation_deg"] = Some(<<"3", "0">>)
        /\ resp[w].status = 400
        /\ resp[w].azimuth_deg = Some(<<>>)

\* C3: with the backend address set, a submission whose fields all parse but
\* one of them to NaN or an infinity is answered 400 and requests.post is not
\* called.
C3_NonFiniteGives400 ==
    \A w \in Workers :
        ( /\ Done(w, "render")
          /\ Configured
          /\ \A name \in FieldNames : Numeric(The(req[w].form), name)
          /\ \E name \in FieldNames :
                ~IsFinite(Float(The(The(req[w].form)[name]))) )
        => /\ resp[w].status = 400
           /\ calls[w] = 0

\* C4: with the backend address empty, every submission is answered 500 with
\* no image reference, whether its fields are numbers or not (never 400), and
\* the handler ends there.
C4_UnsetBackendGives500 ==
    \A w \in Workers :
        ~Configured =>
            /\ req[w].op = "render" => pc[w] = "done"
            /\ Done(w, "render") =>
                /\ resp[w].status = 500
                /\ resp[w].error # None
                /\ resp[w].image_url = None

C4_Witness ==
    \E w \in Workers :
        /\ Done(w, "render")
        /\ ~Configured
        /\ \E name \in FieldNames : ~Numeric(The(req[w].form), name)
        /\ resp[w].status = 500

\* The answer requests takes for a success (resp.ok: no exception and a status
\* below 400) ...
Succeeded(o) == o.kind = "response" /\ o.status < 400

\* ... carrying image/png: the header up to the first ";", without surrounding
\* blanks, in any case.
CarriesPng(o) ==
    /\ o.content_type # None
    /\ Lower(Strip(SplitFirst(The(o.content_type), ";"))) = ImagePng

C6_Inv ==
    /\ Cardinality(HandedIds) = handouts
    /\ DOMAIN IMAGE_CACHE \subseteq
            HandedIds \cup {The(req[w].rid) : w \in {v \in Workers : pc[v] = "respond"}}
    /\ \A w \in Workers :
            (Done(w, "render") /\ resp[w].status # 200 /\ req[w].rid # None) =>
                /\ The(req[w].rid) \notin DOMAIN IMAGE_CACHE
                /\ The(req[w].rid) \notin HandedIds

C6_HandOut ==
    \A h \in handed' \ handed :
        /\ h.rid \in DOMAIN IMAGE_CACHE'
        /\ IMAGE_CACHE'[h.rid] = h.content

\* C6: an identifier sent in an image_url maps, when it is sent, to the stored
\* bytes of its submission; no identifier is sent by two submissions; the
\* identifier of a submission that failed is neither sent nor in the store.
C6_HandedOutIdsAreStoredAndUnique == [](C6_Inv) /\ [][C6_HandOut]_vars

C6_Witness ==
    /\ Cardinality(HandedIds) = 2
    /\ \E w \in Workers :
            /\ Done(w, "render")
            /\ resp[w].status = 502
            /\ req[w].rid # None

\* C7 as stated: a fetch of an identifier whose bytes /image/<rid> has already
\* sent once is answered 404.
C7_ServedOnce ==
    \A w \in Workers :
        (Done(w, "image") /\ req[w].refetch) => resp[w].status = 404

\* C7 amended: a fetch of an identifier whose bytes /image/<rid> has already
\* sent is answered 200, image/png, with the same bytes again.
C7_ServedEveryTime ==
    \A w \in Workers :
        (Done(w, "image") /\ req[w].refetch) =>
            /\ resp[w].status = 200
            /\ resp[w].mimetype = "image/png"
            /\ \A s \in served :
                    s.rid = The(req[w].rid) => resp[w].body = Some(s.content)

C7_Witness ==
    \E w \in Workers :
        /\ Done(w, "image")
        /\ req[w].refetch
        /\ The(req[w].rid) \in HandedIds
        /\ resp[w].status = 200

\* C8: with requests handled one after the other, a submission answered 200
\* has added exactly one new entry to the store and left the others as they
\* were; any other request (a submission answered 400, 500 or 502, a fetch,
\* the landing page) has left the store as it found it.
C8_OnlySuccessfulSubmitChangesStore ==
    \A w \in Workers :
        pc[w] = "done" =>
            IF req[w].op = "render" /\ resp[w].status = 200
            THEN /\ The(req[w].rid) \notin DOMAIN req[w].before
                 /\ DOMAIN IMAGE_CACHE = DOMAIN req[w].before \cup {The(req[w].rid)}
                 /\ \A k \in DOMAIN req[w].before :
                        IMAGE_CACHE[k] = req[w].before[k]
            ELSE /\ DOMAIN IMAGE_CACHE = DOMAIN req[w].before
                 /\ \A k \in DOMAIN req[w].before :
                        IMAGE_CACHE[k] = req[w].before[k]

C8_Witness ==
    \E w \in Workers :
        /\ Done(w, "render")
        /\ resp[w].status = 200
        /\ DOMAIN req[w].before # {}
        /\ Cardinality(DOMAIN IMAGE_CACHE) = Cardinality(DOMAIN req[w].before) + 1

C10_Inv ==
    /\ \A h \in handed :
            /\ h.rid \in DOMAIN IMAGE_CACHE
            /\ IMAGE_CACHE[h.rid] = h.content
    /\ \A w \in Workers :
            Done(w, "image") =>
                IF req[w].data = None
                THEN resp[w].status = 404
                ELSE /\ resp[w].status = 200
                     /\ resp[w].body = req[w].data

C10_Read ==
    \A w \in Workers :
        (pc[w] = "get" /\ pc'[w] = "got") =>
            /\ \A h \in handed :
                    h.rid = The(req[w].rid) => req'[w].data = Some(h.content)
            /\ The(req[w].rid) \notin DOMAIN IMAGE_CACHE => req'[w].data = None

\* C10: with two threads handling requests at the same time, every entry handed
\* out stays in the store with its submission's bytes, a fetch that reads the
\* store for a handed-out identifier gets exactly those bytes and sends them,
\* and a fetch that reads before the entry is stored answers 404.
C10_ConcurrentFetchGetsOwnBytes == [](C10_Inv) /\ [][C10_Read]_vars

C10_Witness ==
    \E w, v \in Workers :
        /\ Done(w, "image")
        /\ The(req[w].rid) \in HandedIds
        /\ resp[w].status = 200
        /\ pc[v] = "store"
        /\ req[v].before = <<>>

=============================================================================
